---- MODULE Spec2Model ----
(***************************************************************************)
(* Model of the restaurant website grader server (server/index.js):        *)
(* the scoring function gradeWebsite, the Gemini fallback chain            *)
(* generateAIInsights, the URL validation helper isValidUrl and the        *)
(* POST /grade handler that chains them; and of the client component App   *)
(* (client/src/App.tsx): its search box, suggestions and audits.           *)
(*                                                                         *)
(* Strings whose characters matter (URLs) are sequences of one-character   *)
(* strings.  A parsed page is the record of the values the cheerio         *)
(* selectors of gradeWebsite yield on it.  An issue text built from a      *)
(* template literal is the template plus the sequence of interpolated      *)
(* numbers (field args).                                                   *)
(***************************************************************************)
EXTENDS Integers, Sequences, FiniteSets, TLC

VARIABLES
    body,        \* req.body.url of the request: [type, str]
    pc,          \* position of the POST /grade handler
    url,         \* the handler's local url (normalised before the fetch)
    fetches,     \* URLs handed to axios.get, in order
    fetchState,  \* "none", "pending", "resolved" or "rejected"
    page,        \* signals of the fetched page
    loadTime,    \* Date.now() - startTime
    grade,       \* value returned by gradeWebsite
    graded,      \* number of gradeWebsite calls made
    genAI,       \* TRUE iff the Gemini client was initialised
    modelIdx,    \* index in modelNames of the call awaited
    calls,       \* model identifiers given to generateContent, in order
    replies,     \* outcomes of those calls, in order
    aiInsights,  \* value returned by generateAIInsights
    response,    \* what res.status(..).json(..) sent
    testResults, \* the results array of GET /test-ai
    requests,    \* the locals of each of several POST /grade requests
    app,         \* the state of the App component of the client
    tasks        \* the timers and fetches the client is waiting for

vars == <<body, pc, url, fetches, fetchState, page, loadTime, grade, graded, genAI,
          modelIdx, calls, replies, aiInsights, response, testResults,
          requests, app, tasks>>

-----------------------------------------------------------------------------
(* Bounds of the model *)

\* number of signals in which a graded page may differ from a fixture page
MaxDiff == 2
\* largest number of <h1> elements on a page
MaxH1 == 2
\* largest number of <img> elements on a page
MaxImages == 6
\* number of POST /grade requests in flight together
MaxRequests == 2

\* keystrokes in the search box of the client
MaxKeystrokes == 3

\* audits started in the client
MaxAudits == 2

-----------------------------------------------------------------------------
(* Arithmetic *)

\* Math.round(num / den) for num >= 0, den > 0
RoundDiv(num, den) == (2 * num + den) \div (2 * den)

RECURSIVE SumSeq(_)
SumSeq(s) == IF Len(s) = 0 THEN 0 ELSE s[1] + SumSeq(Tail(s))

RECURSIVE Flatten(_)
Flatten(ss) == IF Len(ss) = 0 THEN <<>> ELSE ss[1] \o Flatten(Tail(ss))

-----------------------------------------------------------------------------
(* Pages: what the selectors of gradeWebsite read *)

Fields ==
    {"titleLen", "descriptionLen", "h1Count", "hasCanonical", "hasOgTags",
     "hasPdf", "hasMenu", "hasHours", "hasAddress", "phoneInText",
     "hasClickablePhone", "imageCount", "imagesWithAlt",
     "hasOrdering", "hasReservation", "hasSocialLinks", "hasGoogleMaps",
     "hasViewport", "hasFavicon", "hasStructuredData"}

TitleLens == {0, 29, 30, 60, 61}
DescriptionLens == {0, 119, 120, 160, 161}

FieldValues(f) ==
    CASE f = "titleLen" -> TitleLens
      [] f = "descriptionLen" -> DescriptionLens
      [] f = "h1Count" -> 0..MaxH1
      [] f = "imageCount" -> {0, 4} \cup (5..MaxImages)
      [] f = "imagesWithAlt" -> {0, 2, 3} \cup (5..MaxImages)
      [] OTHER -> BOOLEAN

\* bare markup: no title, no meta tags, no h1, no links, no images
MinimalPage ==
    [titleLen |-> 0, descriptionLen |-> 0, h1Count |-> 0,
     hasCanonical |-> FALSE, hasOgTags |-> FALSE,
     hasPdf |-> FALSE, hasMenu |-> FALSE, hasHours |-> FALSE,
     hasAddress |-> FALSE, phoneInText |-> FALSE,
     hasClickablePhone |-> FALSE, imageCount |-> 0, imagesWithAlt |-> 0,
     hasOrdering |-> FALSE, hasReservation |-> FALSE,
     hasSocialLinks |-> FALSE, hasGoogleMaps |-> FALSE,
     hasViewport |-> FALSE, hasFavicon |-> FALSE,
     hasStructuredData |-> FALSE]

\* a page that passes every check
CompletePage ==
    [titleLen |-> 30, descriptionLen |-> 120, h1Count |-> 1,
     hasCanonical |-> TRUE, hasOgTags |-> TRUE,
     hasPdf |-> FALSE, hasMenu |-> TRUE, hasHours |-> TRUE,
     hasAddress |-> TRUE, phoneInText |-> TRUE,
     hasClickablePhone |-> TRUE, imageCount |-> 5, imagesWithAlt |-> 5,
     hasOrdering |-> TRUE, hasReservation |-> TRUE,
     hasSocialLinks |-> TRUE, hasGoogleMaps |-> TRUE,
     hasViewport |-> TRUE, hasFavicon |-> TRUE,
     hasStructuredData |-> TRUE]

\* a page in between: long title, PDF menu, phone in text only, few images
TypicalPage ==
    [titleLen |-> 61, descriptionLen |-> 119, h1Count |-> 2,
     hasCanonical |-> FALSE, hasOgTags |-> TRUE,
     hasPdf |-> TRUE, hasMenu |-> TRUE, hasHours |-> TRUE,
     hasAddress |-> FALSE, phoneInText |-> TRUE,
     hasClickablePhone |-> FALSE, imageCount |-> 4, imagesWithAlt |-> 2,
     hasOrdering |-> FALSE, hasReservation |-> TRUE,
     hasSocialLinks |-> FALSE, hasGoogleMaps |-> TRUE,
     hasViewport |-> TRUE, hasFavicon |-> FALSE,
     hasStructuredData |-> FALSE]

FixturePages == {MinimalPage, CompletePage, TypicalPage}

\* the pages obtained from P by changing one signal
VaryOne(P) ==
    UNION { UNION { { [p EXCEPT ![f] = v] : v \in FieldValues(f) }
                    : f \in Fields }
            : p \in P }

RECURSIVE Vary(_, _)
Vary(P, k) == IF k = 0 THEN P ELSE Vary(P \cup VaryOne(P), k - 1)

\* an <img alt> is an <img>, so imagesWithAlt never exceeds imageCount
Pages == { p \in Vary(FixturePages, MaxDiff) : p.imagesWithAlt <= p.imageCount }

LoadTimes == {0, 1, 1999, 2000, 5000, 5001, 6000}

-----------------------------------------------------------------------------
(* Strings as character sequences *)

StartsWith(s, prefix) ==
    /\ Len(s) >= Len(prefix)
    /\ SubSeq(s, 1, Len(prefix)) = prefix

Http == <<"h", "t", "t", "p">>
Https == <<"h", "t", "t", "p", "s">>
HttpsPrefix == <<"h", "t", "t", "p", "s", ":", "/", "/">>

-----------------------------------------------------------------------------
(* gradeWebsite *)

Issue(type, text, args) == [type |-> type, text |-> text, args |-> args]

Check(score, issues) == [score |-> score, issues |-> issues]

\* a title check whose upper limit leaves 60 characters out
titleCheckExclusive(p) ==
    IF p.titleLen >= 30 /\ p.titleLen < 60
    THEN Check(8, <<>>)
    ELSE IF p.titleLen > 0
    THEN Check(4, <<Issue("warning",
             "Title length (${title.length} chars) should be 30-60 characters",
             <<p.titleLen>>)>>)
    ELSE Check(0, <<Issue("error", "Missing page title", <<>>)>>)

titleCheck(p) ==
    IF p.titleLen >= 30 /\ p.titleLen <= 60
    THEN Check(8, <<>>)
    ELSE IF p.titleLen > 0
    THEN Check(4, <<Issue("warning",
             "Title length (${title.length} chars) should be 30-60 characters",
             <<p.titleLen>>)>>)
    ELSE Check(0, <<Issue("error", "Missing page title", <<>>)>>)

descriptionCheck(p) ==
    IF p.descriptionLen >= 120 /\ p.descriptionLen <= 160
    THEN Check(8, <<>>)
    ELSE IF p.descriptionLen > 0
    THEN Check(4, <<Issue("warning",
             "Meta description (${description.length} chars) should be 120-160 characters",
             <<p.descriptionLen>>)>>)
    ELSE Check(0, <<Issue("error",
             "Missing meta description - hurts Google rankings", <<>>)>>)

h1Check(p) ==
    IF p.h1Count = 1
    THEN Check(6, <<>>)
    ELSE IF p.h1Count = 0
    THEN Check(0, <<Issue("error", "Missing H1 heading", <<>>)>>)
    ELSE Check(3, <<Issue("warning",
             "Multiple H1 tags found (${h1Count}) - should have exactly 1",
             <<p.h1Count>>)>>)

canonicalCheck(p) ==
    IF p.hasCanonical
    THEN Check(4, <<>>)
    ELSE Check(0, <<Issue("info", "No canonical URL set", <<>>)>>)

ogTagsCheck(p) ==
    IF p.hasOgTags
    THEN Check(4, <<>>)
    ELSE Check(0, <<Issue("warning",
             "Missing Open Graph tags - social sharing won't look good",
             <<>>)>>)

seoChecks(p) ==
    <<titleCheck(p), descriptionCheck(p), h1Check(p), canonicalCheck(p),
      ogTagsCheck(p)>>

\* const hasPhone: the phone regex on the body text, or a tel: link
hasPhone(p) == p.phoneInText \/ p.hasClickablePhone

\* a menu check that looks at the menu signal before the PDF link
menuCheckMenuFirst(p) ==
    IF p.hasMenu
    THEN Check(8, <<>>)
    ELSE IF p.hasPdf
    THEN Check(2, <<Issue("error",
             "PDF menu detected - hard for Google to read, bad on mobile",
             <<>>)>>)
    ELSE Check(0, <<Issue("warning", "No menu found on homepage", <<>>)>>)

menuCheck(p) ==
    IF p.hasPdf
    THEN Check(2, <<Issue("error",
             "PDF menu detected - hard for Google to read, bad on mobile",
             <<>>)>>)
    ELSE IF p.hasMenu
    THEN Check(8, <<>>)
    ELSE Check(0, <<Issue("warning", "No menu found on homepage", <<>>)>>)

hoursCheck(p) ==
    IF p.hasHours
    THEN Check(5, <<>>)
    ELSE Check(0, <<Issue("error",
             "Business hours not found - customers need this!", <<>>)>>)

addressCheck(p) ==
    IF p.hasAddress
    THEN Check(4, <<>>)
    ELSE Check(0, <<Issue("warning",
             "Address/location not clearly visible", <<>>)>>)

phoneCheck(p) ==
    IF hasPhone(p)
    THEN Check(4, <<>>)
    ELSE Check(0, <<Issue("warning", "Phone number not found", <<>>)>>)

imagesCheck(p) ==
    IF p.imageCount >= 5
    THEN IF 2 * p.imagesWithAlt < p.imageCount
         THEN Check(4, <<Issue("warning",
                  "Only ${Math.round((imagesWithAlt / imageCount) * 100)}% of images have alt text",
                  <<RoundDiv(100 * p.imagesWithAlt, p.imageCount)>>)>>)
         ELSE Check(4, <<>>)
    ELSE Check(0, <<Issue("info", "Consider adding more food photos", <<>>)>>)

contentChecks(p) ==
    <<menuCheck(p), hoursCheck(p), addressCheck(p), phoneCheck(p),
      imagesCheck(p)>>

orderingCheck(p) ==
    IF p.hasOrdering
    THEN Check(8, <<>>)
    ELSE Check(0, <<Issue("error",
             "No online ordering option found - you're losing sales!",
             <<>>)>>)

reservationCheck(p) ==
    IF p.hasReservation
    THEN Check(5, <<>>)
    ELSE Check(0, <<Issue("info", "No reservation system detected", <<>>)>>)

socialCheck(p) ==
    IF p.hasSocialLinks
    THEN Check(4, <<>>)
    ELSE Check(0, <<Issue("warning", "No social media links found", <<>>)>>)

\* a check that warns whenever there is no tel: link
clickablePhoneCheckAlwaysWarns(p) ==
    IF p.hasClickablePhone
    THEN Check(4, <<>>)
    ELSE Check(0, <<Issue("warning",
             "Phone number not clickable on mobile", <<>>)>>)

clickablePhoneCheck(p) ==
    IF p.hasClickablePhone
    THEN Check(4, <<>>)
    ELSE IF hasPhone(p)
    THEN Check(0, <<Issue("warning",
             "Phone number not clickable on mobile", <<>>)>>)
    ELSE Check(0, <<>>)

mapsCheck(p) ==
    IF p.hasGoogleMaps
    THEN Check(4, <<>>)
    ELSE Check(0, <<Issue("info", "Consider embedding Google Maps", <<>>)>>)

usabilityChecks(p) ==
    <<orderingCheck(p), reservationCheck(p), socialCheck(p),
      clickablePhoneCheck(p), mapsCheck(p)>>

viewportCheck(p) ==
    IF p.hasViewport
    THEN Check(6, <<>>)
    ELSE Check(0, <<Issue("error",
             "Not mobile-friendly - missing viewport meta tag", <<>>)>>)

\* const hasHttps = url.startsWith("https")
hasHttps(u) == StartsWith(u, Https)

\* a check that gives part of the points to a site without HTTPS
httpsCheckPartialCredit(u) ==
    IF hasHttps(u)
    THEN Check(5, <<>>)
    ELSE Check(3, <<Issue("error",
             "Site not secure (no HTTPS) - Google penalizes this", <<>>)>>)

httpsCheck(u) ==
    IF hasHttps(u)
    THEN Check(5, <<>>)
    ELSE Check(0, <<Issue("error",
             "Site not secure (no HTTPS) - Google penalizes this", <<>>)>>)

faviconCheck(p) ==
    IF p.hasFavicon
    THEN Check(3, <<>>)
    ELSE Check(0, <<Issue("info", "Missing favicon", <<>>)>>)

structuredDataCheck(p) ==
    IF p.hasStructuredData
    THEN Check(6, <<>>)
    ELSE Check(0, <<Issue("warning",
             "No structured data (Schema.org) - missing rich snippets in Google",
             <<>>)>>)

\* the seconds without decimals, as toFixed(0) gives them
toFixed0(ms) == <<(ms + 500) \div 1000>>

\* (loadTime / 1000).toFixed(1) as <<integer part, first decimal>>, for
\* load times that are not halfway between two tenths of a second
toFixed1(ms) ==
    LET tenths == (ms + 50) \div 100
    IN  <<tenths \div 10, tenths % 10>>

\* a load time of 0 is falsy, so it takes neither branch
loadTimeCheck(t) ==
    IF t # 0 /\ t < 2000
    THEN Check(2, <<>>)
    ELSE IF t # 0 /\ t > 5000
    THEN Check(0, <<Issue("warning",
             "Slow load time (${(loadTime / 1000).toFixed(1)}s) - aim for under 3 seconds",
             toFixed1(t))>>)
    ELSE Check(0, <<>>)

technicalChecks(p, u, t) ==
    <<viewportCheck(p), httpsCheck(u), faviconCheck(p),
      structuredDataCheck(p), loadTimeCheck(t)>>

\* one entry of results: the checks of a category applied in order
categoryResult(checks, max) ==
    [score |-> SumSeq([i \in 1..Len(checks) |-> checks[i].score]),
     maxScore |-> max,
     issues |-> Flatten([i \in 1..Len(checks) |-> checks[i].issues])]

results(p, u, t) ==
    [seo |-> categoryResult(seoChecks(p), 30),
     content |-> categoryResult(contentChecks(p), 25),
     usability |-> categoryResult(usabilityChecks(p), 25),
     technical |-> categoryResult(technicalChecks(p, u, t), 20)]

\* a total that leaves the technical category out
totalScoreSkipsTechnical(r) ==
    r.seo.score + r.content.score + r.usability.score

totalScore(r) ==
    r.seo.score + r.content.score + r.usability.score + r.technical.score

maxScore(r) ==
    r.seo.maxScore + r.content.maxScore + r.usability.maxScore
        + r.technical.maxScore

\* issues.map((i) => ({ ...i, category }))
tagIssues(issues, category) ==
    [i \in 1..Len(issues) |->
        [type |-> issues[i].type, text |-> issues[i].text,
         args |-> issues[i].args, category |-> category]]

\* allIssues before the sort
allIssues(r) ==
    tagIssues(r.seo.issues, "SEO") \o tagIssues(r.content.issues, "Content")
        \o tagIssues(r.usability.issues, "Usability")
        \o tagIssues(r.technical.issues, "Technical")

priority == [error |-> 0, warning |-> 1, info |-> 2]

\* a comparator that ranks by severity the wrong way round
compareIssuesReversed(a, b) == priority[b.type] - priority[a.type]

\* the comparator (a, b) => priority[a.type] - priority[b.type]
compareIssues(a, b) == priority[a.type] - priority[b.type]

\* Array.prototype.sort is stable; on arrays this short V8 runs an
\* insertion sort: x goes after the last element that does not compare
\* greater than it
RECURSIVE insertIssue(_, _)
insertIssue(sorted, x) ==
    IF Len(sorted) = 0
    THEN <<x>>
    ELSE LET last == sorted[Len(sorted)]
         IN  IF compareIssues(last, x) > 0
             THEN Append(insertIssue(SubSeq(sorted, 1, Len(sorted) - 1), x),
                         last)
             ELSE Append(sorted, x)

RECURSIVE sortIssues(_)
sortIssues(issues) ==
    IF Len(issues) = 0
    THEN <<>>
    ELSE insertIssue(sortIssues(SubSeq(issues, 1, Len(issues) - 1)),
                     issues[Len(issues)])

categoryScore(c) ==
    [score |-> c.score, maxScore |-> c.maxScore,
     percentage |-> RoundDiv(100 * c.score, c.maxScore)]

gradeWebsite(p, u, t) ==
    LET r == results(p, u, t)
    IN  [score |-> RoundDiv(100 * totalScore(r), maxScore(r)),
         breakdown |-> [seo |-> categoryScore(r.seo),
                        content |-> categoryScore(r.content),
                        usability |-> categoryScore(r.usability),
                        technical |-> categoryScore(r.technical)],
         issues |-> sortIssues(allIssues(r))]

-----------------------------------------------------------------------------
(* isValidUrl *)

Letters == {"a", "b", "h", "p", "s", "t"}

RECURSIVE dropSlashes(_)
dropSlashes(s) ==
    IF Len(s) > 0 /\ s[1] = "/" THEN dropSlashes(Tail(s)) ELSE s

RECURSIVE upToSlash(_)
upToSlash(s) ==
    IF Len(s) = 0 \/ s[1] = "/" THEN <<>> ELSE <<s[1]>> \o upToSlash(Tail(s))

\* the host of an http(s) URL must be non-empty and hold no space
validHost(rest) ==
    LET host == upToSlash(dropSlashes(rest))
    IN  /\ Len(host) > 0
        /\ \A j \in 1..Len(host) : host[j] # " "

\* s[1..i-1] is a scheme and s[i] the colon after it
schemeEndsAt(s, i) ==
    /\ s[i] = ":"
    /\ \A j \in 1..(i - 1) : s[j] \in Letters

\* new URL(s) does not throw: s starts with a scheme and a colon, and an
\* http or https URL has a valid host
parsesAsUrl(s) ==
    \E i \in 2..Len(s) :
        /\ schemeEndsAt(s, i)
        /\ SubSeq(s, 1, i - 1) \in {Http, Https}
               => validHost(SubSeq(s, i + 1, Len(s)))

\* string.startsWith("http")
startsWithHttp(s) == StartsWith(s, Http)

isValidUrl(string) ==
    parsesAsUrl(IF startsWithHttp(string) THEN string
                ELSE HttpsPrefix \o string)

-----------------------------------------------------------------------------
(* Requests *)

UrlHttp == <<"h", "t", "t", "p", ":", "/", "/", "a", ".", "b">>
UrlHttps == <<"h", "t", "t", "p", "s", ":", "/", "/", "a", ".", "b">>
BareDomain == <<"a", ".", "b">>
BareHttpDomain == <<"h", "t", "t", "p", "a", ".", "b">>
SpacedText == <<"a", " ", "b">>
SchemeOnly == <<"h", "t", "t", "p", ":">>
SpacedHttp == <<"h", "t", "t", "p", ":", "/", "/", "a", " ", "b">>

UrlStrings ==
    {<<>>, UrlHttp, UrlHttps, BareDomain, BareHttpDomain, SpacedText,
     SchemeOnly, SpacedHttp}

\* req.body.url: absent, a number, or a string
Bodies ==
    {[type |-> "undefined", str |-> <<>>], [type |-> "number", str |-> <<>>]}
        \cup {[type |-> "string", str |-> s] : s \in UrlStrings}

FetchErrors ==
    {"getaddrinfo ENOTFOUND", "connect ECONNREFUSED",
     "timeout of 15000ms exceeded"}

-----------------------------------------------------------------------------
(* generateAIInsights *)

modelNames ==
    <<"gemini-2.5-flash", "gemini-2.0-flash", "gemini-1.5-flash-latest",
      "gemini-pro">>

InsightKeys ==
    {"summary", "topPriority", "quickWins", "competitorTip",
     "estimatedImpact"}

JsonNull == [kind |-> "null", keys |-> {}, quickWins |-> <<>>]

\* the JSON documents a reply may hold, with the value JSON.parse gives
documents ==
    [null |-> JsonNull,
     insights3 |-> [kind |-> "object", keys |-> InsightKeys,
                    quickWins |-> <<"w1", "w2", "w3">>],
     insights2 |-> [kind |-> "object", keys |-> InsightKeys,
                    quickWins |-> <<"w1", "w2">>],
     summaryOnly |-> [kind |-> "object", keys |-> {"summary"},
                      quickWins |-> <<>>]]

\* the code-fence markers (three backquotes, written here with quotes)
JsonFence == "'''json"
Fence == "'''"

\* reply texts as token sequences: a fence, a newline, a space, prose, or
\* a whole JSON document
ReplyTexts ==
    {<<"insights3">>,
     <<JsonFence, "\n", "insights3", "\n", Fence>>,
     <<"insights2">>,
     <<"summaryOnly">>,
     <<"null">>,
     <<"Sure!", " ", "insights3">>,
     <<>>}

\* what awaiting generateContent and response.text() ends in
Outcomes ==
    {[kind |-> "throw", text |-> <<>>]}
        \cup {[kind |-> "text", text |-> t] : t \in ReplyTexts}

\* text.replace(/<fence>\n?/g, "")
RECURSIVE removeFence(_, _)
removeFence(text, fence) ==
    IF Len(text) = 0 THEN <<>>
    ELSE IF text[1] = fence
    THEN IF Len(text) > 1 /\ text[2] = "\n"
         THEN removeFence(SubSeq(text, 3, Len(text)), fence)
         ELSE removeFence(Tail(text), fence)
    ELSE <<text[1]>> \o removeFence(Tail(text), fence)

Whitespace == {" ", "\n"}

RECURSIVE trimStart(_)
trimStart(text) ==
    IF Len(text) > 0 /\ text[1] \in Whitespace
    THEN trimStart(Tail(text)) ELSE text

RECURSIVE trimEnd(_)
trimEnd(text) ==
    IF Len(text) > 0 /\ text[Len(text)] \in Whitespace
    THEN trimEnd(SubSeq(text, 1, Len(text) - 1)) ELSE text

trim(text) == trimEnd(trimStart(text))

cleanReply(text) == trim(removeFence(removeFence(text, JsonFence), Fence))

\* JSON.parse(text) does not throw
parses(text) == Len(text) = 1 /\ text[1] \in DOMAIN documents

\* a loop body whose catch block lets the error go on to the caller
tryModelRethrows(o) ==
    IF o.kind = "text" /\ parses(cleanReply(o.text))
    THEN [kind |-> "return", value |-> documents[cleanReply(o.text)[1]]]
    ELSE [kind |-> "raise", value |-> JsonNull]

\* one pass of the for loop body once the awaited call has settled in
\* outcome o: return parsed, or catch and continue
tryModel(o) ==
    IF o.kind = "text" /\ parses(cleanReply(o.text))
    THEN [kind |-> "return", value |-> documents[cleanReply(o.text)[1]]]
    ELSE [kind |-> "continue", value |-> JsonNull]

-----------------------------------------------------------------------------
(* POST /grade *)

NoValue == [unset |-> TRUE]
NoResponse == [status |-> 0]

Init ==
    /\ body \in Bodies
    /\ genAI \in BOOLEAN
    /\ pc = "start"
    /\ url = <<>>
    /\ fetches = <<>>
    /\ fetchState = "none"
    /\ page = NoValue
    /\ loadTime = 0
    /\ grade = NoValue
    /\ graded = 0
    /\ modelIdx = 0
    /\ calls = <<>>
    /\ replies = <<>>
    /\ aiInsights = NoValue
    /\ response = NoResponse
    /\ testResults = <<>>
    /\ app = NoValue
    /\ tasks = NoValue
    /\ requests = <<>>

\* res.json({url, score, breakdown, issues, title, loadTime, aiInsights})
\* length of title.substring(0, 60) + (title.length > 60 ? "..." : "")
responseTitleLen(n) ==
    (IF n < 60 THEN n ELSE 60) + (IF n > 60 THEN 3 ELSE 0)

\* a response that echoes the url of the request body
okResponseEchoesInput(u, g, p, t, ai) ==
    [status |-> 200, url |-> body.str, score |-> g.score,
     breakdown |-> g.breakdown, issues |-> g.issues,
     titleLen |-> responseTitleLen(p.titleLen),
     loadTime |-> t, aiInsights |-> ai]

okResponse(u, g, p, t, ai) ==
    [status |-> 200, url |-> u, score |-> g.score,
     breakdown |-> g.breakdown, issues |-> g.issues,
     titleLen |-> responseTitleLen(p.titleLen),
     loadTime |-> t, aiInsights |-> ai]

errorResponse(status, error) == [status |-> status, error |-> error]

\* the handler from its entry to the await of axios.get
PostGrade ==
    /\ pc = "start"
    /\ IF body.type # "string" \/ Len(body.str) = 0
       THEN /\ response' = errorResponse(400, <<"URL is required">>)
            /\ pc' = "done"
            /\ UNCHANGED <<url, fetches, fetchState>>
       ELSE IF ~isValidUrl(body.str)
       THEN /\ response' = errorResponse(400, <<"Invalid URL format">>)
            /\ pc' = "done"
            /\ UNCHANGED <<url, fetches, fetchState>>
       ELSE /\ url' = IF ~startsWithHttp(body.str)
                      THEN HttpsPrefix \o body.str ELSE body.str
            /\ fetches' = Append(fetches, url')
            /\ fetchState' = "pending"
            /\ pc' = "fetching"
            /\ UNCHANGED response
    /\ UNCHANGED <<testResults, requests, app, tasks>>
    /\ UNCHANGED <<body, page, loadTime, grade, graded, genAI, modelIdx,
                   calls, replies, aiInsights>>

\* a handler that answers a rejected fetch by fetching again
FetchRejectedRetries ==
    /\ pc = "fetching"
    /\ fetchState' = "pending"
    /\ fetches' = Append(fetches, url)
    /\ UNCHANGED <<testResults, requests, app, tasks>>
    /\ UNCHANGED <<body, pc, url, page, loadTime, grade, graded, genAI,
                   modelIdx, calls, replies, aiInsights, response>>

\* a catch block that logs the error and sends nothing
FetchRejectedLogsOnly ==
    /\ pc = "fetching"
    /\ fetchState' = "rejected"
    /\ pc' = "done"
    /\ UNCHANGED <<testResults, requests, app, tasks>>
    /\ UNCHANGED <<body, url, fetches, page, loadTime, grade, graded, genAI,
                   modelIdx, calls, replies, aiInsights, response>>

\* axios.get rejects: the catch block answers 500
FetchRejected ==
    /\ pc = "fetching"
    /\ \E e \in FetchErrors :
           response' = errorResponse(500, <<"Could not scan site: ", e>>)
    /\ fetchState' = "rejected"
    /\ pc' = "done"
    /\ UNCHANGED <<testResults, requests, app, tasks>>
    /\ UNCHANGED <<body, url, fetches, page, loadTime, grade, graded, genAI,
                   modelIdx, calls, replies, aiInsights>>

\* a guard that lets a missing client through to the model loop
neverSkipsInsights(g) == FALSE

\* generateAIInsights up to its first await: TRUE iff it returns null at once
skipsInsights(g) == ~g

\* a handler that answers as soon as the page is graded, before the
\* insights are back
FetchResolvedRespondsEarly ==
    /\ pc = "fetching"
    /\ \E p \in FixturePages, t \in LoadTimes :
           /\ page' = p
           /\ loadTime' = t
           /\ grade' = gradeWebsite(p, url, t)
    /\ fetchState' = "resolved"
    /\ graded' = graded + 1
    /\ response' = okResponse(url, grade', page', loadTime', JsonNull)
    /\ IF skipsInsights(genAI)
       THEN /\ aiInsights' = JsonNull
            /\ pc' = "done"
            /\ UNCHANGED <<modelIdx, calls>>
       ELSE /\ modelIdx' = 1
            /\ calls' = Append(calls, modelNames[1])
            /\ pc' = "generating"
            /\ UNCHANGED aiInsights
    /\ UNCHANGED <<testResults, requests, app, tasks>>
    /\ UNCHANGED <<body, url, fetches, genAI, replies>>

\* axios.get resolves: parse, grade, and enter generateAIInsights
FetchResolved ==
    /\ pc = "fetching"
    /\ \E p \in FixturePages, t \in LoadTimes :
           /\ page' = p
           /\ loadTime' = t
           /\ grade' = gradeWebsite(p, url, t)
    /\ fetchState' = "resolved"
    /\ graded' = graded + 1
    /\ IF skipsInsights(genAI)
       THEN /\ aiInsights' = JsonNull
            /\ response' = okResponse(url, grade', page', loadTime', JsonNull)
            /\ pc' = "done"
            /\ UNCHANGED <<modelIdx, calls>>
       ELSE /\ modelIdx' = 1
            /\ calls' = Append(calls, modelNames[1])
            /\ pc' = "generating"
            /\ UNCHANGED <<aiInsights, response>>
    /\ UNCHANGED <<testResults, requests, app, tasks>>
    /\ UNCHANGED <<body, url, fetches, genAI, replies>>

\* the awaited model call settles: return the parsed reply, or try the
\* next identifier, or return null after the last one
ModelSettled ==
    /\ pc = "generating"
    /\ \E o \in Outcomes :
           LET step == tryModel(o)
           IN  /\ replies' = Append(replies, o)
               /\ IF step.kind = "return"
                  THEN /\ aiInsights' = step.value
                       /\ response' = okResponse(url, grade, page, loadTime,
                                                 step.value)
                       /\ pc' = "done"
                       /\ UNCHANGED <<modelIdx, calls>>
                  ELSE IF step.kind = "continue" /\ modelIdx < Len(modelNames)
                  THEN /\ modelIdx' = modelIdx + 1
                       /\ calls' = Append(calls, modelNames[modelIdx + 1])
                       /\ UNCHANGED <<pc, aiInsights, response>>
                  ELSE IF step.kind = "continue"
                  THEN /\ aiInsights' = JsonNull
                       /\ response' = okResponse(url, grade, page, loadTime,
                                                 JsonNull)
                       /\ pc' = "done"
                       /\ UNCHANGED <<modelIdx, calls>>
                  ELSE \* an error leaving generateAIInsights reaches the
                       \* catch block of the handler
                       /\ response' = errorResponse(500,
                              <<"Could not scan site: ", "insight error">>)
                       /\ pc' = "done"
                       /\ UNCHANGED <<modelIdx, calls, aiInsights>>
    /\ UNCHANGED <<testResults, requests, app, tasks>>
    /\ UNCHANGED <<body, url, fetches, fetchState, page, loadTime, grade,
                   graded, genAI>>

Next == PostGrade \/ FetchRejected \/ FetchResolved \/ ModelSettled

Spec == Init /\ [][Next]_vars

\* The handler runs once the request arrives; axios.get settles (it resolves,
\* rejects, or rejects at its 15000 ms timeout); every awaited
\* generateContent call settles.
SpecLive ==
    /\ Init
    /\ [][Next]_vars
    /\ WF_vars(PostGrade)
    /\ WF_vars(FetchRejected \/ FetchResolved)
    /\ WF_vars(ModelSettled)

-----------------------------------------------------------------------------
(* gradeWebsite on its own: every page, URL and load time *)

GradedUrls == {UrlHttp, UrlHttps}

InitGrade ==
    /\ page \in Pages
    /\ url \in GradedUrls
    /\ loadTime \in LoadTimes
    /\ pc = "call"
    /\ body = [type |-> "string", str |-> url]
    /\ genAI = FALSE
    /\ fetches = <<>>
    /\ fetchState = "none"
    /\ grade = NoValue
    /\ graded = 0
    /\ modelIdx = 0
    /\ calls = <<>>
    /\ replies = <<>>
    /\ aiInsights = NoValue
    /\ response = NoResponse
    /\ testResults = <<>>
    /\ app = NoValue
    /\ tasks = NoValue
    /\ requests = <<>>

GradeCall ==
    /\ pc = "call"
    /\ grade' = gradeWebsite(page, url, loadTime)
    /\ graded' = graded + 1
    /\ pc' = "returned"
    /\ UNCHANGED <<testResults, requests, app, tasks>>
    /\ UNCHANGED <<body, url, fetches, fetchState, page, loadTime, genAI,
                   modelIdx, calls, replies, aiInsights, response>>

NextGrade == GradeCall

SpecGrade == InitGrade /\ [][NextGrade]_vars

-----------------------------------------------------------------------------
(* GET /test-ai *)

ErrorMessages ==
    {"429 quota exceeded", "404 model not found", "fetch failed"}

\* what awaiting generateContent and reading result.response.text() ends
\* in; every modelled text and message is shorter than 100 characters, so
\* substring(0, 100) leaves it whole
TestOutcomes ==
    {[kind |-> "throw", text |-> <<>>, message |-> m] : m \in ErrorMessages}
        \cup {[kind |-> "text", text |-> t, message |-> ""] : t \in ReplyTexts}

\* results.push({model, status: "success", response}) or
\* results.push({model, status: "error", message})
testEntry(modelName, o) ==
    [model |-> modelName,
     status |-> IF o.kind = "text" THEN "success" ELSE "error",
     response |-> o.text,
     message |-> o.message]

InitTest ==
    /\ genAI \in BOOLEAN
    /\ pc = "test-start"
    /\ body = [type |-> "undefined", str |-> <<>>]
    /\ url = <<>>
    /\ fetches = <<>>
    /\ fetchState = "none"
    /\ page = NoValue
    /\ loadTime = 0
    /\ grade = NoValue
    /\ graded = 0
    /\ modelIdx = 0
    /\ calls = <<>>
    /\ replies = <<>>
    /\ aiInsights = NoValue
    /\ response = NoResponse
    /\ testResults = <<>>
    /\ app = NoValue
    /\ tasks = NoValue
    /\ requests = <<>>

\* the handler from its entry to the first await
TestAi ==
    /\ pc = "test-start"
    /\ IF ~genAI
       THEN /\ \E found \in BOOLEAN :
                   response' = [status |-> 200, result |-> "error",
                                message |-> "Gemini not initialized",
                                apiKeyFound |-> found]
            /\ pc' = "done"
            /\ UNCHANGED <<modelIdx, calls>>
       ELSE /\ modelIdx' = 1
            /\ calls' = Append(calls, modelNames[1])
            /\ pc' = "testing"
            /\ UNCHANGED response
    /\ UNCHANGED <<body, url, fetches, fetchState, page, loadTime, grade,
                   graded, genAI, replies, aiInsights, testResults,
                   requests, app, tasks>>

\* a loop that goes on to the next identifier after a success too
TestSettledNoBreak ==
    /\ pc = "testing"
    /\ \E o \in TestOutcomes :
           /\ replies' = Append(replies, o)
           /\ testResults'
                  = Append(testResults, testEntry(modelNames[modelIdx], o))
    /\ IF modelIdx < Len(modelNames)
       THEN /\ modelIdx' = modelIdx + 1
            /\ calls' = Append(calls, modelNames[modelIdx + 1])
            /\ UNCHANGED <<pc, response>>
       ELSE /\ response' = [status |-> 200, results |-> testResults']
            /\ pc' = "done"
            /\ UNCHANGED <<modelIdx, calls>>
    /\ UNCHANGED <<body, url, fetches, fetchState, page, loadTime, grade,
                   graded, genAI, aiInsights, requests, app, tasks>>

\* the awaited call settles: push an entry, then break on a success, go on
\* to the next identifier on an error, and answer after the loop
TestSettled ==
    /\ pc = "testing"
    /\ \E o \in TestOutcomes :
           /\ replies' = Append(replies, o)
           /\ testResults'
                  = Append(testResults, testEntry(modelNames[modelIdx], o))
           /\ IF o.kind # "text" /\ modelIdx < Len(modelNames)
              THEN /\ modelIdx' = modelIdx + 1
                   /\ calls' = Append(calls, modelNames[modelIdx + 1])
                   /\ UNCHANGED <<pc, response>>
              ELSE /\ response' = [status |-> 200, results |-> testResults']
                   /\ pc' = "done"
                   /\ UNCHANGED <<modelIdx, calls>>
    /\ UNCHANGED <<body, url, fetches, fetchState, page, loadTime, grade,
                   graded, genAI, aiInsights, requests, app, tasks>>

NextTest == TestAi \/ TestSettled

SpecTest == InitTest /\ [][NextTest]_vars

-----------------------------------------------------------------------------
(* Several POST /grade requests in flight: each handler call has its own  *)
(* locals, and genAI is the only module-level state it reads              *)

Reqs == 1..MaxRequests

ConcBodies == {UrlHttp, BareDomain, SpacedText}
ConcPages == {MinimalPage, CompletePage}
ConcLoadTimes == {1, 6000}
ConcFetchErrors == {"getaddrinfo ENOTFOUND"}
ConcOutcomes ==
    {[kind |-> "throw", text |-> <<>>],
     [kind |-> "text", text |-> <<"insights3">>]}

\* the locals of a handler call that has just been entered
newRequest(b) ==
    [body |-> [type |-> "string", str |-> b], pc |-> "start", url |-> <<>>,
     fetchError |-> "", page |-> NoValue, loadTime |-> 0,
     grade |-> NoValue, modelIdx |-> 0, replies |-> <<>>,
     response |-> NoResponse]

\* request i from its entry to the await of axios.get
concPostGrade(rs, i) ==
    LET r == rs[i]
    IN  IF r.body.type # "string" \/ Len(r.body.str) = 0
        THEN [r EXCEPT !.response = errorResponse(400, <<"URL is required">>),
                       !.pc = "done"]
        ELSE IF ~isValidUrl(r.body.str)
        THEN [r EXCEPT
                 !.response = errorResponse(400, <<"Invalid URL format">>),
                 !.pc = "done"]
        ELSE [r EXCEPT !.url = IF ~startsWithHttp(r.body.str)
                               THEN HttpsPrefix \o r.body.str
                               ELSE r.body.str,
                       !.pc = "fetching"]

\* the axios.get of request i rejects with e
concFetchRejected(rs, i, e) ==
    [rs[i] EXCEPT
        !.response = errorResponse(500, <<"Could not scan site: ", e>>),
        !.fetchError = e,
        !.pc = "done"]

\* the URL of the request entered last, as a url kept in one module-level
\* variable would be read after the await
lastUrlSet(rs, i) ==
    LET started == {j \in DOMAIN rs : Len(rs[j].url) > 0}
    IN  rs[CHOOSE j \in started : \A k \in started : k <= j].url

\* the url that request i reads after its await: its own local
urlOf(rs, i) == rs[i].url

\* the axios.get of request i resolves with page p after t ms
concFetchResolved(rs, i, p, t) ==
    LET r == rs[i]
        u == urlOf(rs, i)
        g == gradeWebsite(p, u, t)
    IN  IF skipsInsights(genAI)
        THEN [r EXCEPT !.page = p, !.loadTime = t, !.grade = g,
                       !.response = okResponse(u, g, p, t, JsonNull),
                       !.pc = "done"]
        ELSE [r EXCEPT !.page = p, !.loadTime = t, !.grade = g,
                       !.modelIdx = 1, !.pc = "generating"]

\* the awaited model call of request i settles in outcome o
concModelSettled(rs, i, o) ==
    LET r == rs[i]
        step == tryModel(o)
        done(ai) ==
            [r EXCEPT !.replies = Append(r.replies, o),
                      !.response = okResponse(urlOf(rs, i), r.grade, r.page,
                                              r.loadTime, ai),
                      !.pc = "done"]
    IN  IF step.kind = "return"
        THEN done(step.value)
        ELSE IF r.modelIdx < Len(modelNames)
        THEN [r EXCEPT !.replies = Append(r.replies, o),
                       !.modelIdx = r.modelIdx + 1]
        ELSE done(JsonNull)

InitConc ==
    /\ genAI \in BOOLEAN
    /\ requests \in [Reqs -> {newRequest(b) : b \in ConcBodies}]
    /\ pc = "serving"
    /\ body = [type |-> "undefined", str |-> <<>>]
    /\ url = <<>>
    /\ fetches = <<>>
    /\ fetchState = "none"
    /\ page = NoValue
    /\ loadTime = 0
    /\ grade = NoValue
    /\ graded = 0
    /\ modelIdx = 0
    /\ calls = <<>>
    /\ replies = <<>>
    /\ aiInsights = NoValue
    /\ response = NoResponse
    /\ testResults = <<>>
    /\ app = NoValue
    /\ tasks = NoValue

idle ==
    <<body, pc, url, fetches, fetchState, page, loadTime, grade, graded,
      genAI, modelIdx, calls, replies, aiInsights, response, testResults>>

ConcPostGrade(i) ==
    /\ requests[i].pc = "start"
    /\ requests' = [requests EXCEPT ![i] = concPostGrade(requests, i)]
    /\ UNCHANGED <<idle, app, tasks>>

ConcFetchRejected(i) ==
    /\ requests[i].pc = "fetching"
    /\ \E e \in ConcFetchErrors :
           requests' = [requests EXCEPT
                           ![i] = concFetchRejected(requests, i, e)]
    /\ UNCHANGED <<idle, app, tasks>>

ConcFetchResolved(i) ==
    /\ requests[i].pc = "fetching"
    /\ \E p \in ConcPages, t \in ConcLoadTimes :
           requests' = [requests EXCEPT
                           ![i] = concFetchResolved(requests, i, p, t)]
    /\ UNCHANGED <<idle, app, tasks>>

ConcModelSettled(i) ==
    /\ requests[i].pc = "generating"
    /\ \E o \in ConcOutcomes :
           requests' = [requests EXCEPT
                           ![i] = concModelSettled(requests, i, o)]
    /\ UNCHANGED <<idle, app, tasks>>

NextConc ==
    \E i \in Reqs :
        \/ ConcPostGrade(i)
        \/ ConcFetchRejected(i)
        \/ ConcFetchResolved(i)
        \/ ConcModelSettled(i)

SpecConc == InitConc /\ [][NextConc]_vars

-----------------------------------------------------------------------------
(* The client: the App component of client/src/App.tsx.  app holds the     *)
(* values of its useState hooks; tasks holds what the event loop still    *)
(* owes it: the debounce timer, the searches and the audits in flight.    *)

\* the places the search service knows: name, address and website tag
PlaceWithSite ==
    [place_id |-> 1,
     display_name |-> <<"a", "b", "c", ",", " ", "x">>,
     website |-> BareDomain]

PlaceWithoutSite ==
    [place_id |-> 2,
     display_name |-> <<"a", "b", "c", "d", ",", " ", "y">>,
     website |-> <<>>]

Places == <<PlaceWithSite, PlaceWithoutSite>>

\* what the search service answers for q: the places whose name begins so
searchResults(q) ==
    LET matches(p) == StartsWith(p.display_name, q)
    IN  SelectSeq(Places, matches)

\* the values of the search box
Queries == {<<"a", "b">>, <<"a", "b", "c">>, <<"a", "b", "c", "d">>}

\* the values of the manual URL box
ManualUrls == {<<>>, UrlHttp}

\* place.display_name.split(",")[0]
RECURSIVE firstPart(_)
firstPart(s) ==
    IF Len(s) = 0 \/ s[1] = "," THEN <<>> ELSE <<s[1]>> \o firstPart(Tail(s))

steps ==
    <<"Fetching website...", "Analyzing SEO...", "Checking content...",
      "Testing usability...", "Running technical checks...",
      "Generating AI insights...">>

NullReport == [null |-> TRUE]

\* the bodies POST /grade may answer for urlToScan, as res.json() gives them
gradeReplies(urlToScan) ==
    IF Len(urlToScan) = 0
    THEN {[error |-> "URL is required"]}
    ELSE IF ~isValidUrl(urlToScan)
    THEN {[error |-> "Invalid URL format"]}
    ELSE {[error |-> "Could not scan site"],
          [url |-> IF ~startsWithHttp(urlToScan)
                   THEN HttpsPrefix \o urlToScan ELSE urlToScan,
           score |-> 97]}

\* the report of the catch block of runAudit
connectionError(urlToScan) ==
    [url |-> urlToScan, title |-> <<>>, score |-> 0, issues |-> <<>>,
     error |-> "Error connecting to backend server"]

\* every way the awaited fetch and res.json() of runAudit may end
auditReports(urlToScan) ==
    gradeReplies(urlToScan) \cup {connectionError(urlToScan)}

initialApp ==
    [query |-> <<>>, suggestions |-> <<>>, manualUrl |-> <<>>,
     showManualInput |-> FALSE, selectedPlaceName |-> <<>>,
     report |-> NullReport, loading |-> FALSE, scanStep |-> "",
     activeTab |-> "issues", searchLoading |-> FALSE]

noTasks ==
    [debounceRef |-> NoValue, searches |-> [q \in Queries |-> 0],
     audits |-> <<>>, keystrokes |-> 0]

\* runAudit up to its first await
runAudit(a, urlToScan) ==
    [a EXCEPT !.loading = TRUE, !.report = NullReport,
              !.showManualInput = FALSE, !.activeTab = "issues",
              !.scanStep = steps[1]]

newAudit(urlToScan) ==
    [urlToScan |-> urlToScan, pc |-> "stepping", step |-> 1,
     report |-> NullReport]

InitClient ==
    /\ app = initialApp
    /\ tasks = noTasks
    /\ pc = "client"
    /\ body = [type |-> "undefined", str |-> <<>>]
    /\ genAI = FALSE
    /\ url = <<>>
    /\ fetches = <<>>
    /\ fetchState = "none"
    /\ page = NoValue
    /\ loadTime = 0
    /\ grade = NoValue
    /\ graded = 0
    /\ modelIdx = 0
    /\ calls = <<>>
    /\ replies = <<>>
    /\ aiInsights = NoValue
    /\ response = NoResponse
    /\ testResults = <<>>
    /\ requests = <<>>

\* a keystroke in the search box: handleSearch
HandleSearch ==
    /\ pc = "client"
    /\ tasks.keystrokes < MaxKeystrokes
    /\ \E value \in Queries :
           /\ value # app.query
           /\ app' = [app EXCEPT !.query = value,
                                 !.showManualInput = FALSE,
                                 !.report = NullReport,
                                 !.suggestions =
                                     IF Len(value) < 3 THEN <<>> ELSE @]
           /\ tasks' = [tasks EXCEPT
                  !.debounceRef =
                      IF Len(value) < 3 THEN NoValue ELSE [value |-> value],
                  !.keystrokes = @ + 1]
    /\ UNCHANGED <<idle, requests>>

\* the debounce timer fires: its callback runs up to the await of fetch
DebounceFired ==
    /\ pc = "client"
    /\ tasks.debounceRef # NoValue
    /\ app' = [app EXCEPT !.searchLoading = TRUE]
    /\ tasks' = [tasks EXCEPT
           !.debounceRef = NoValue,
           !.searches[tasks.debounceRef.value] = @ + 1]
    /\ UNCHANGED <<idle, requests>>

\* a search settles: setSuggestions(data), or the catch block that logs
SearchSettled ==
    /\ pc = "client"
    /\ \E q \in Queries, ok \in BOOLEAN :
           /\ tasks.searches[q] > 0
           /\ app' = [app EXCEPT
                  !.suggestions = IF ok THEN searchResults(q) ELSE @,
                  !.searchLoading = FALSE]
           /\ tasks' = [tasks EXCEPT !.searches[q] = @ - 1]
    /\ UNCHANGED <<idle, requests>>

\* a click on a suggestion: handleSelect
HandleSelect ==
    /\ pc = "client"
    /\ \E i \in 1..Len(app.suggestions) :
           LET place == app.suggestions[i]
               chosen == [app EXCEPT
                   !.suggestions = <<>>,
                   !.query = firstPart(place.display_name),
                   !.selectedPlaceName = place.display_name]
           IN  IF Len(place.website) > 0
               THEN /\ Len(tasks.audits) < MaxAudits
                    /\ app' = runAudit(chosen, place.website)
                    /\ tasks' = [tasks EXCEPT !.audits =
                           Append(@, newAudit(place.website))]
               ELSE /\ app' = [chosen EXCEPT !.showManualInput = TRUE]
                    /\ UNCHANGED tasks
    /\ UNCHANGED <<idle, requests>>

\* typing in the manual URL box
SetManualUrl ==
    /\ pc = "client"
    /\ app.showManualInput
    /\ \E value \in ManualUrls :
           /\ value # app.manualUrl
           /\ app' = [app EXCEPT !.manualUrl = value]
    /\ UNCHANGED tasks
    /\ UNCHANGED <<idle, requests>>

\* a click on Scan: runAudit(manualUrl)
Scan ==
    /\ pc = "client"
    /\ app.showManualInput
    /\ Len(app.manualUrl) > 0
    /\ Len(tasks.audits) < MaxAudits
    /\ app' = runAudit(app, app.manualUrl)
    /\ tasks' = [tasks EXCEPT !.audits = Append(@, newAudit(app.manualUrl))]
    /\ UNCHANGED <<idle, requests>>

\* a 400 ms timer of the steps loop fires: the next step, or the fetch
AuditTimer ==
    /\ pc = "client"
    /\ \E k \in 1..Len(tasks.audits) :
           /\ tasks.audits[k].pc = "stepping"
           /\ IF tasks.audits[k].step < Len(steps)
              THEN /\ app' = [app EXCEPT
                          !.scanStep = steps[tasks.audits[k].step + 1]]
                   /\ tasks' = [tasks EXCEPT !.audits[k].step = @ + 1]
              ELSE /\ tasks' = [tasks EXCEPT !.audits[k].pc = "fetching"]
                   /\ UNCHANGED app
    /\ UNCHANGED <<idle, requests>>

\* the fetch of an audit settles: setReport, setLoading(false)
AuditSettled ==
    /\ pc = "client"
    /\ \E k \in 1..Len(tasks.audits) :
           /\ tasks.audits[k].pc = "fetching"
           /\ \E data \in auditReports(tasks.audits[k].urlToScan) :
                  /\ app' = [app EXCEPT !.report = data,
                                        !.loading = FALSE,
                                        !.scanStep = ""]
                  /\ tasks' = [tasks EXCEPT !.audits[k].pc = "done",
                                            !.audits[k].report = data]
    /\ UNCHANGED <<idle, requests>>

NextClient ==
    \/ HandleSearch
    \/ DebounceFired
    \/ SearchSettled
    \/ HandleSelect
    \/ SetManualUrl
    \/ Scan
    \/ AuditTimer
    \/ AuditSettled

SpecClient == InitClient /\ [][NextClient]_vars

-----------------------------------------------------------------------------
(* Properties *)

Categories == {"seo", "content", "usability", "technical"}

breakdownSum(g) ==
    g.breakdown.seo.score + g.breakdown.content.score
        + g.breakdown.usability.score + g.breakdown.technical.score

breakdownMax(g) ==
    g.breakdown.seo.maxScore + g.breakdown.content.maxScore
        + g.breakdown.usability.maxScore + g.breakdown.technical.maxScore

\* C1: every category score that gradeWebsite reports is at most the
\* category's fixed maxScore: seo 30, content 25, usability 25, technical 20.
C1_CategoryScoreWithinMax ==
    pc = "returned" =>
        /\ grade.breakdown.seo.score <= 30
        /\ grade.breakdown.content.score <= 25
        /\ grade.breakdown.usability.score <= 25
        /\ grade.breakdown.technical.score <= 20
        /\ \A c \in Categories :
               grade.breakdown[c].score <= grade.breakdown[c].maxScore

\* C2: the total score returned by gradeWebsite and placed in the audit
\* response is an integer in 0..100.
C2_TotalScoreInRange ==
    /\ graded > 0 => grade.score \in 0..100
    /\ response.status = 200 => response.score \in 0..100

\* C3: the total score is round(100 * sum of the four category scores / sum
\* of the four maxScores), and since the maxima sum to 100 it is the sum of
\* the four category scores of the breakdown.
C3_TotalIsSumOfCategories ==
    pc = "returned" =>
        /\ breakdownMax(grade) = 100
        /\ 2 * 100 * breakdownSum(grade)
               < (2 * grade.score + 1) * breakdownMax(grade)
        /\ 2 * 100 * breakdownSum(grade)
               >= (2 * grade.score - 1) * breakdownMax(grade)
        /\ grade.score = breakdownSum(grade)

\* C3 witness: a graded page whose four category scores are all partial
C3_Witness ==
    /\ pc = "returned"
    /\ \A c \in Categories :
           /\ grade.breakdown[c].score > 0
           /\ grade.breakdown[c].score < grade.breakdown[c].maxScore
    /\ grade.score = breakdownSum(grade)

issuesOfType(issues, ty) ==
    LET hasType(i) == i.type = ty IN SelectSeq(issues, hasType)

categoryRank == [SEO |-> 0, Content |-> 1, Usability |-> 2, Technical |-> 3]

\* C4: in the returned issue list no warning or info precedes an error and
\* no info precedes a warning; issues of equal severity keep the order SEO,
\* Content, Usability, Technical and, within a category, the order in which
\* the checks appended them.
C4_IssuesStablySorted ==
    pc = "returned" =>
        LET sorted == grade.issues
            appended == allIssues(results(page, url, loadTime))
        IN  /\ Len(sorted) = Len(appended)
            /\ \A i, j \in 1..Len(sorted) :
                   i < j =>
                       /\ priority[sorted[i].type] <= priority[sorted[j].type]
                       /\ sorted[i].type = sorted[j].type =>
                              categoryRank[sorted[i].category]
                                  <= categoryRank[sorted[j].category]
            /\ \A ty \in DOMAIN priority :
                   issuesOfType(sorted, ty) = issuesOfType(appended, ty)

\* C4 witness: the checks appended a warning or info before an error, and
\* two issues of one severity came from one category and from two categories
C4_Witness ==
    /\ pc = "returned"
    /\ grade.issues # allIssues(results(page, url, loadTime))
    /\ \E i, j \in 1..Len(grade.issues) :
           /\ i < j
           /\ grade.issues[i].type = grade.issues[j].type
           /\ grade.issues[i].category # grade.issues[j].category
    /\ \E i, j \in 1..Len(grade.issues) :
           /\ i < j
           /\ grade.issues[i].type = grade.issues[j].type
           /\ grade.issues[i].category = grade.issues[j].category

\* the values JSON.parse can return
ParsedValues == {documents[d] : d \in DOMAIN documents}

\* the call threw, or its reply is not valid JSON
failed(o) == o.kind = "throw" \/ ~parses(cleanReply(o.text))

\* C5: whatever the per-model outcomes (call throws, reply is not JSON,
\* reply parses), generateAIInsights hands its caller a parsed value or
\* null, and a request whose fetch succeeded answers 200 with its score and
\* issues.
C5_InsightsNeverRaise ==
    (pc = "done" /\ fetchState = "resolved") =>
        /\ aiInsights \in ParsedValues \cup {JsonNull}
        /\ response.status = 200
        /\ response.score = grade.score
        /\ response.issues = grade.issues
        /\ response.aiInsights = aiInsights

\* C5 witness: every model failed, by a throw and by a bad reply, and the
\* request was answered 200
C5_Witness ==
    /\ pc = "done"
    /\ fetchState = "resolved"
    /\ Len(replies) = Len(modelNames)
    /\ \A k \in 1..Len(replies) : failed(replies[k])
    /\ \E k \in 1..Len(replies) : replies[k].kind = "throw"
    /\ \E k \in 1..Len(replies) : replies[k].kind = "text"
    /\ response.status = 200

\* C6: the identifiers are called in the order of modelNames, at most once
\* each; a failed call is followed by the next identifier; the first reply
\* that parses is returned and no later identifier is called; null is
\* returned exactly when every identifier failed.
C6_FallbackChain ==
    genAI =>
        /\ Len(calls) <= Len(modelNames)
        /\ calls = SubSeq(modelNames, 1, Len(calls))
        /\ \A k \in 1..Len(replies) : k < Len(calls) => failed(replies[k])
        /\ (pc = "done" /\ fetchState = "resolved") =>
               /\ Len(replies) = Len(calls)
               /\ ~failed(replies[Len(replies)]) =>
                      aiInsights
                          = documents[cleanReply(replies[Len(replies)].text)[1]]
               /\ aiInsights = JsonNull <=>
                      /\ Len(replies) = Len(modelNames)
                      /\ \A k \in 1..Len(replies) : failed(replies[k])

\* C7: an aiInsights that is present in a 200 response has the AIInsights
\* shape, with a quickWins of exactly 3 entries.
C7_QuickWinsHasThreeEntries ==
    (response.status = 200 /\ response.aiInsights # JsonNull) =>
        /\ response.aiInsights.kind = "object"
        /\ response.aiInsights.keys = InsightKeys
        /\ Len(response.aiInsights.quickWins) = 3

\* C8: without a credential generateAIInsights returns null without any
\* model call, and a request whose fetch succeeded answers 200 with
\* aiInsights null and the score, breakdown and issues that gradeWebsite
\* gives for the page, URL and load time, as it does with a credential.
C8_NoCredentialNoCall ==
    /\ ~genAI => calls = <<>> /\ replies = <<>>
    /\ (~genAI /\ fetchState = "resolved") =>
           /\ pc = "done"
           /\ response.status = 200
           /\ response.aiInsights = JsonNull
    /\ (pc = "done" /\ fetchState = "resolved") =>
           /\ response.score = gradeWebsite(page, url, loadTime).score
           /\ response.breakdown = gradeWebsite(page, url, loadTime).breakdown
           /\ response.issues = gradeWebsite(page, url, loadTime).issues

\* C8 witness: an answered request of a server without credential
C8_Witness ==
    /\ ~genAI
    /\ pc = "done"
    /\ fetchState = "resolved"
    /\ response.status = 200
    /\ Len(response.issues) > 0

\* C9: a failed fetch is not retried and aborts the pipeline: the answer is
\* 500 with a message containing "Could not scan site", and neither
\* gradeWebsite nor any model call happens.
C9_FailedFetchAborts ==
    /\ Len(fetches) <= 1
    /\ fetchState = "rejected" =>
           /\ pc = "done"
           /\ response.status = 500
           /\ response.error[1] = "Could not scan site: "
           /\ response.error[2] \in FetchErrors
           /\ graded = 0
           /\ calls = <<>>

\* C9 witness: a fetch that timed out on a server with a credential
C9_Witness ==
    /\ fetchState = "rejected"
    /\ genAI
    /\ response.status = 500
    /\ response.error[2] = "timeout of 15000ms exceeded"

hasScheme(s) == \E i \in 2..Len(s) : schemeEndsAt(s, i)

\* a url without scheme that is a valid URL once https:// is prepended
isBareDomain(s) == ~hasScheme(s) /\ parsesAsUrl(HttpsPrefix \o s)

\* C10: a url that is missing, not a string or not valid URL syntax is
\* answered 400 without a fetch; every bare domain is accepted and fetched
\* as https:// + url, bare domains that begin with "http" included.
C10_BareDomainsAccepted ==
    pc # "start" =>
        /\ (\/ body.type # "string"
            \/ Len(body.str) = 0
            \/ ~(parsesAsUrl(body.str) \/ isBareDomain(body.str)))
               => (response.status = 400 /\ fetches = <<>>)
        /\ (body.type = "string" /\ isBareDomain(body.str))
               => fetches = <<HttpsPrefix \o body.str>>

\* C11: the title of every audit response is at most 60 characters long: a
\* page title of up to 60 characters is returned unchanged and a longer one
\* is truncated with its ellipsis within 60 characters.
C11_TitleAtMostSixty ==
    response.status = 200 =>
        /\ response.titleLen <= 60
        /\ page.titleLen <= 60 => response.titleLen = page.titleLen

\* C12: the stages of a request run in the order fetch, grade, insight
\* generation, response: nothing is graded before the fetch resolved, no
\* model call is issued before gradeWebsite returned, and the response is
\* sent only after generateAIInsights returned.
C12_StagesInOrder ==
    /\ graded > 0 => (fetchState = "resolved" /\ Len(fetches) = 1)
    /\ fetchState \in {"none", "pending"} => (graded = 0 /\ calls = <<>>)
    /\ calls # <<>> =>
           /\ graded = 1
           /\ grade = gradeWebsite(page, url, loadTime)
    /\ pc = "generating" =>
           /\ response = NoResponse
           /\ Len(calls) = Len(replies) + 1
    /\ response.status = 200 =>
           /\ pc = "done"
           /\ graded = 1
           /\ Len(replies) = Len(calls)
           /\ response.aiInsights = aiInsights
           /\ response.score = grade.score

\* C12 witness: a response sent after two model calls
C12_Witness ==
    /\ response.status = 200
    /\ Len(calls) = 2
    /\ Len(replies) = 2

hasHttpScheme(s) ==
    \E i \in 2..Len(s) :
        schemeEndsAt(s, i) /\ SubSeq(s, 1, i - 1) \in {Http, Https}

\* C15: the url of a 200 response is the normalised URL that was fetched:
\* https:// + input for an input without scheme, the input itself for an
\* input with an http or https scheme.
C15_EchoesNormalisedUrl ==
    response.status = 200 =>
        /\ fetches = <<response.url>>
        /\ ~hasScheme(body.str) => response.url = HttpsPrefix \o body.str
        /\ hasHttpScheme(body.str) => response.url = body.str

\* C15 witness: a bare domain that was audited
C15_Witness ==
    /\ response.status = 200
    /\ body.str = BareDomain
    /\ response.url = UrlHttps

issuesWithText(issues, texts) ==
    LET hasText(i) == i.text \in texts IN SelectSeq(issues, hasText)

TitleTexts ==
    {"Title length (${title.length} chars) should be 30-60 characters",
     "Missing page title"}

\* what the title check added to the SEO score of a grade
titleContribution(g, p) ==
    g.breakdown.seo.score
        - (descriptionCheck(p).score + h1Check(p).score
           + canonicalCheck(p).score + ogTagsCheck(p).score)

\* C16: a title of 30 to 60 characters adds 8 and no title issue; a shorter
\* non-empty or a longer title adds 4 and one warning; an empty or missing
\* title adds 0 and the error "Missing page title".
C16_TitleCheck ==
    pc = "returned" =>
        LET L == page.titleLen
            added == titleContribution(grade, page)
            found == issuesWithText(grade.issues, TitleTexts)
        IN  /\ (L >= 30 /\ L <= 60) => (added = 8 /\ found = <<>>)
            /\ ((L > 0 /\ L < 30) \/ L > 60) =>
                   /\ added = 4
                   /\ Len(found) = 1
                   /\ found[1].type = "warning"
                   /\ found[1].category = "SEO"
            /\ L = 0 =>
                   /\ added = 0
                   /\ Len(found) = 1
                   /\ found[1].type = "error"
                   /\ found[1].text = "Missing page title"
                   /\ found[1].category = "SEO"

\* C16 witness: a graded page whose title has exactly 60 characters
C16_Witness ==
    /\ pc = "returned"
    /\ page.titleLen = 60
    /\ titleContribution(grade, page) = 8

SlowText ==
    "Slow load time (${(loadTime / 1000).toFixed(1)}s) - aim for under 3 seconds"

\* what the load time check added to the technical score of a grade
loadTimeContribution(g, p, u) ==
    g.breakdown.technical.score
        - (viewportCheck(p).score + httpsCheck(u).score
           + faviconCheck(p).score + structuredDataCheck(p).score)

\* C17: for every load time >= 0, below 2000 ms adds 2 and no issue, above
\* 5000 ms adds nothing and one warning with the seconds to one decimal,
\* and 2000 to 5000 ms adds nothing and no issue.
C17_LoadTimeCheck ==
    pc = "returned" =>
        LET added == loadTimeContribution(grade, page, url)
            found == issuesWithText(grade.issues, {SlowText})
        IN  /\ loadTime < 2000 => (added = 2 /\ found = <<>>)
            /\ loadTime > 5000 =>
                   /\ added = 0
                   /\ Len(found) = 1
                   /\ found[1].type = "warning"
                   /\ Len(found[1].args) = 2
                   /\ found[1].args[2] \in 0..9
                   /\ 1000 * found[1].args[1] + 100 * found[1].args[2]
                          \in (loadTime - 50)..(loadTime + 50)
            /\ (loadTime >= 2000 /\ loadTime <= 5000) =>
                   (added = 0 /\ found = <<>>)

MenuTexts ==
    {"PDF menu detected - hard for Google to read, bad on mobile",
     "No menu found on homepage"}

\* what the menu check added to the content score of a grade
menuContribution(g, p) ==
    g.breakdown.content.score
        - (hoursCheck(p).score + addressCheck(p).score + phoneCheck(p).score
           + imagesCheck(p).score)

\* C18: a link to a PDF gives 2 and an error whether or not there is a menu
\* signal; without one a menu signal gives 8 and no issue; without either
\* the check gives 0 and the warning "No menu found".
C18_PdfBeforeMenu ==
    pc = "returned" =>
        LET added == menuContribution(grade, page)
            found == issuesWithText(grade.issues, MenuTexts)
        IN  /\ page.hasPdf =>
                   /\ added = 2
                   /\ Len(found) = 1
                   /\ found[1].type = "error"
                   /\ found[1].category = "Content"
            /\ (~page.hasPdf /\ page.hasMenu) => (added = 8 /\ found = <<>>)
            /\ (~page.hasPdf /\ ~page.hasMenu) =>
                   /\ added = 0
                   /\ Len(found) = 1
                   /\ found[1].type = "warning"
                   /\ found[1].text = "No menu found on homepage"

\* C18 witness: a graded page with a PDF link and a menu signal
C18_Witness ==
    /\ pc = "returned"
    /\ page.hasPdf
    /\ page.hasMenu
    /\ menuContribution(grade, page) = 2

hasIssue(g, type, text, category) ==
    \E i \in 1..Len(g.issues) :
        /\ g.issues[i].type = type
        /\ g.issues[i].text = text
        /\ g.issues[i].category = category

\* C19: the bare page fetched over http:// in 6000 ms is reported with
\* "Missing page title", the meta description error, "Missing H1 heading",
\* the viewport error, the HTTPS error and a slow load warning citing 6.0s.
C19_MinimalFixture ==
    (pc = "returned" /\ page = MinimalPage /\ url = UrlHttp
        /\ loadTime = 6000) =>
        /\ hasIssue(grade, "error", "Missing page title", "SEO")
        /\ hasIssue(grade, "error",
               "Missing meta description - hurts Google rankings", "SEO")
        /\ hasIssue(grade, "error", "Missing H1 heading", "SEO")
        /\ hasIssue(grade, "error",
               "Not mobile-friendly - missing viewport meta tag", "Technical")
        /\ hasIssue(grade, "error",
               "Site not secure (no HTTPS) - Google penalizes this",
               "Technical")
        /\ \E i \in 1..Len(grade.issues) :
               /\ grade.issues[i].type = "warning"
               /\ grade.issues[i].text = SlowText
               /\ grade.issues[i].args = <<6, 0>>

\* C19 witness: the fixture has been graded
C19_Witness ==
    /\ pc = "returned"
    /\ page = MinimalPage
    /\ url = UrlHttp
    /\ loadTime = 6000
    /\ Len(grade.issues) > 6

\* C14 as claimed: with a credential the self-test attempts every
\* identifier of modelNames once and returns one entry per identifier,
\* whatever the earlier identifiers gave.
C14_EveryIdentifierAttempted ==
    (pc = "done" /\ genAI) =>
        /\ calls = modelNames
        /\ Len(response.results) = Len(modelNames)
        /\ \A k \in 1..Len(modelNames) :
               response.results[k].model = modelNames[k]

\* C14 as amended: with a credential the self-test attempts the
\* identifiers in the order of modelNames, each at most once, and stops at
\* the first success; it returns one entry per attempted identifier, an
\* error entry for each that failed and, last, a success entry if one
\* succeeded.
C14_AttemptedUntilFirstSuccess ==
    genAI =>
        /\ calls = SubSeq(modelNames, 1, Len(calls))
        /\ \A k \in 1..Len(testResults) :
               /\ testResults[k].model = modelNames[k]
               /\ testResults[k].status
                      = (IF replies[k].kind = "text" THEN "success"
                         ELSE "error")
               /\ testResults[k].status = "success" => k = Len(calls)
        /\ pc = "testing" => Len(calls) = Len(testResults) + 1
        /\ pc = "done" =>
               /\ response.status = 200
               /\ response.results = testResults
               /\ Len(testResults) = Len(calls)
               /\ \/ testResults[Len(testResults)].status = "success"
                  \/ Len(testResults) = Len(modelNames)

\* C14 witness: the first identifier failed, the second succeeded and the
\* answer holds these two entries
C14_Witness ==
    /\ pc = "done"
    /\ genAI
    /\ Len(response.results) = 2
    /\ response.results[1].status = "error"
    /\ response.results[2].status = "success"

\* the normalised form of the url of a request body
normalised(b) == IF StartsWith(b, Http) THEN b ELSE HttpsPrefix \o b

\* the value generateAIInsights gives for the outcomes of its model calls
insightsFor(outs) ==
    IF Len(outs) > 0 /\ ~failed(outs[Len(outs)])
    THEN documents[cleanReply(outs[Len(outs)].text)[1]]
    ELSE JsonNull

\* the response of request r is the one its own body, fetch outcome, page,
\* load time and model replies determine
ownResponse(r) ==
    IF ~isValidUrl(r.body.str)
    THEN r.response.status = 400
    ELSE IF r.fetchError # ""
    THEN /\ r.response.status = 500
         /\ r.response.error = <<"Could not scan site: ", r.fetchError>>
    ELSE LET g == gradeWebsite(r.page, normalised(r.body.str), r.loadTime)
         IN  /\ r.response.status = 200
             /\ r.response.url = normalised(r.body.str)
             /\ r.response.score = g.score
             /\ r.response.breakdown = g.breakdown
             /\ r.response.issues = g.issues
             /\ r.response.loadTime = r.loadTime
             /\ r.response.titleLen = responseTitleLen(r.page.titleLen)
             /\ r.response.aiInsights
                    = (IF genAI THEN insightsFor(r.replies) ELSE JsonNull)

\* C13: requests in flight together are independent: under every
\* interleaving of their fetches and model calls the response of a request
\* is determined by its own url, page, load time and model replies, and a
\* step of one request leaves the state of every other request, and the
\* module-level genAI, as they were.
C13_RequestsIndependent ==
    /\ [](\A i \in Reqs : requests[i].pc = "done" => ownResponse(requests[i]))
    /\ [][/\ genAI' = genAI
          /\ \A i, j \in Reqs :
                 (i # j /\ requests'[i] # requests[i])
                     => requests'[j] = requests[j]]_vars

\* C13 witness: two answered requests for different URLs, both still in
\* flight after the other had been fetched
C13_Witness ==
    /\ requests[1].pc = "done"
    /\ requests[2].pc = "done"
    /\ requests[1].response.status = 200
    /\ requests[2].response.status = 200
    /\ requests[1].response.url # requests[2].response.url
    /\ Len(requests[1].replies) > 1
    /\ Len(requests[2].replies) > 1

\* C21: every request ends with exactly one response: the handler is finished
\* exactly when a response was sent; the response is 400 when validation
\* failed (nothing was fetched), 500 when the fetch was rejected or timed
\* out, 200 when the fetch resolved; a response once sent is never replaced;
\* and, the fetch and every model call settling, a response is eventually
\* sent.
C21_ExactlyOneResponse ==
    /\ [](/\ response.status \in {0, 200, 400, 500}
          /\ (pc = "done") <=> (response # NoResponse)
          /\ (response.status = 400) <=> (pc = "done" /\ fetchState = "none")
          /\ (response.status = 500) <=> (fetchState = "rejected")
          /\ (response.status = 200) <=>
                 (pc = "done" /\ fetchState = "resolved"))
    /\ [][response # NoResponse => response' = response]_vars
    /\ <>(response # NoResponse)

\* C21 witness: the response sent after every model call failed
C21_Witness ==
    /\ pc = "done"
    /\ response.status = 200
    /\ Len(replies) = Len(modelNames)
    /\ \A i \in 1..Len(replies) : replies[i].kind = "throw"

NotClickableTexts == {"Phone number not clickable on mobile"}

NotFoundTexts == {"Phone number not found"}

\* what the clickable phone check added to the usability score of a grade
clickablePhoneContribution(g, p) ==
    g.breakdown.usability.score
        - (orderingCheck(p).score + reservationCheck(p).score
           + socialCheck(p).score + mapsCheck(p).score)

\* C22: a tel: link adds 4 to Usability and no issue; without one, a phone
\* number matched in the body text adds 0 and the Usability warning "Phone
\* number not clickable on mobile"; with neither the check adds 0 and no
\* issue. The warnings "Phone number not found" and "Phone number not
\* clickable on mobile" are never in the same report.
C22_PhoneOutcomes ==
    pc = "returned" =>
        LET added == clickablePhoneContribution(grade, page)
            found == issuesWithText(grade.issues, NotClickableTexts)
            missing == issuesWithText(grade.issues, NotFoundTexts)
        IN  /\ page.hasClickablePhone => (added = 4 /\ found = <<>>)
            /\ (~page.hasClickablePhone /\ page.phoneInText) =>
                   /\ added = 0
                   /\ Len(found) = 1
                   /\ found[1].type = "warning"
                   /\ found[1].category = "Usability"
            /\ (~page.hasClickablePhone /\ ~page.phoneInText) =>
                   (added = 0 /\ found = <<>>)
            /\ found = <<>> \/ missing = <<>>

\* C22 witness: a report on a page whose phone number is in the text only
C22_Witness ==
    /\ pc = "returned"
    /\ page.phoneInText
    /\ ~page.hasClickablePhone
    /\ issuesWithText(grade.issues, NotClickableTexts) # <<>>

\* n is x rounded to the nearest integer, ties upwards, for x = num / den
isRounded(n, num, den) ==
    /\ 2 * den * n <= 2 * num + den
    /\ 2 * num + den < 2 * den * (n + 1)

\* C23: the percentage reported for each category of the breakdown equals
\* round(score / maxScore * 100) and lies in 0..100.
C23_PercentageInRange ==
    pc = "returned" =>
        \A c \in Categories :
            LET b == grade.breakdown[c]
            IN  /\ isRounded(b.percentage, 100 * b.score, b.maxScore)
                /\ b.percentage \in 0..100

\* C24: a grade with no issue has every category score at least the
\* category's maxScore and a total of at least 100; a grade with an issue of
\* type error has a total below 100.
C24_IssuesAndScore ==
    pc = "returned" =>
        /\ grade.issues = <<>> =>
               /\ \A c \in Categories :
                      grade.breakdown[c].score >= grade.breakdown[c].maxScore
               /\ grade.score >= 100
        /\ issuesOfType(grade.issues, "error") # <<>> => grade.score < 100

\* C24 witness: a grade of 97 whose only issue is an error
C24_Witness ==
    /\ pc = "returned"
    /\ Len(grade.issues) = 1
    /\ grade.issues[1].type = "error"
    /\ grade.score = 97

\* C25: while an audit started in the client has not delivered its report,
\* loading is true; and once every audit has, the report displayed is the
\* report of the audit started last.
C25_LatestAuditWins ==
    pc = "client" =>
        LET n == Len(tasks.audits)
            inFlight == {k \in 1..n : tasks.audits[k].pc # "done"}
        IN  /\ inFlight # {} => app.loading
            /\ (n > 0 /\ inFlight = {} /\ app.report # NullReport) =>
                   app.report = tasks.audits[n].report

\* C26: the suggestions are empty whenever the query has fewer than 3
\* characters, and a search response that is put into the suggestions is
\* the response to the query in the search box.
C26_LatestQueryWins ==
    /\ [](pc = "client" =>
             (Len(app.query) < 3 => app.suggestions = <<>>))
    /\ [][(pc = "client" /\ app'.suggestions # app.suggestions
              /\ app'.suggestions # <<>>) =>
             app'.suggestions = searchResults(app'.query)]_vars

====
